---- MODULE Spec2Model ----
(***************************************************************************)
(* Model of FallbackModel (src/src/index.ts): a multiplexer over an        *)
(* ordered list of backend models that fails over to the next backend on   *)
(* retryable errors, for buffered calls (doGenerate) and streamed calls    *)
(* (doStream).                                                             *)
(*                                                                         *)
(* One action is one run of a handler between two awaits: JavaScript runs  *)
(* each such piece atomically, calls interleave only at awaits.            *)
(*                                                                         *)
(* Backends are the environment: every dispatch and every read of a        *)
(* backend stream draws its outcome from a small set.  A backend is named  *)
(* by its position in settings.models, and its modelId is that position.   *)
(*                                                                         *)
(* The nested streams built by recursive doStream hand-offs are FIFO pipes *)
(* from the innermost wrapped stream to the caller; the model composes     *)
(* them: a chunk enqueued by the innermost relay is appended to the        *)
(* caller's sequence, and close/error of the innermost stream closes or    *)
(* errors every enclosing one (lines 246-254).                             *)
(***************************************************************************)
EXTENDS Integers, Sequences, FiniteSets, TLC

\* ----------------------------------------------------------------- bounds
MaxModels == 3
MaxChunks == 2
MaxDispatches == 3
MaxTime == 1
ResetInterval == 1

\* ------------------------------------------------------------ error values
NoError == [statusCode |-> 0, message |-> "", origin |-> "none",
            from |-> -1, seq |-> 0, at |-> 0]

\* The errors a backend can produce: an HTTP 503 without a telling message,
\* and a 404 whose message says the model does not exist.
ErrorKinds ==
    { [statusCode |-> 503, message |-> "upstream failure"],
      [statusCode |-> 404, message |-> "the model does not exist"] }

\* What a ReadableStream controller throws once its stream is closed.
InvalidState == [statusCode |-> 0, message |-> "invalid state"]

\* An error value.  Besides what the classifier reads (statusCode, message) it
\* carries where it arose, so that two failures are never the same value:
\* origin ("dispatch": the backend rejected the call, "in-band": an error
\* chunk, "out-of-band": the read of the backend's stream rejected), the
\* backend, the number of the dispatch within the call and the number of
\* chunks read from that dispatch's stream before it.  A further origin,
\* "controller", is the TypeError that controller.enqueue and controller.close
\* throw on a stream the caller has cancelled.
MakeError(kind, origin, cr) ==
    [statusCode |-> kind.statusCode, message |-> kind.message,
     origin |-> origin, from |-> cr.target, seq |-> Len(cr.attempts),
     at |-> cr.pos]

retryableStatusCodes == {401, 403, 408, 409, 413, 429, 500}

retryableErrors ==
    { "overloaded", "service unavailable", "bad gateway", "too many requests",
      "internal server error", "gateway timeout", "rate_limit", "wrong-key",
      "unexpected", "capacity", "timeout", "server_error",
      "429", "500", "502", "503", "504" }

\* The fragments of retryableErrors and of the custom predicate that occur
\* in a lower-cased message (String.prototype.includes).
Fragments(message) ==
    CASE message = "upstream failure" -> {}
      [] message = "invalid state" -> {}
      [] message = "the model does not exist" -> {"does not exist"}
      [] message = "Overloaded" -> {"overloaded"}
      [] message = "rate_limit exceeded" -> {"rate_limit"}
      [] OTHER -> {}

\* The fragments of retryableErrors that occur in JSON.stringify of an error
\* object without a message: those spelled by the digits of its status code
\* (codes of three digits).
Serialized(error) ==
    {errType \in {"429", "500", "502", "503", "504"} :
        \/ errType = "429" /\ error.statusCode = 429
        \/ errType = "500" /\ error.statusCode = 500
        \/ errType = "502" /\ error.statusCode = 502
        \/ errType = "503" /\ error.statusCode = 503
        \/ errType = "504" /\ error.statusCode = 504}

defaultShouldRetryThisError(error) ==
    IF /\ error.statusCode # 0
       /\ (error.statusCode \in retryableStatusCodes \/ error.statusCode > 500)
    THEN TRUE
    ELSE IF error.message # ""
         THEN \E errType \in retryableErrors : errType \in Fragments(error.message)
         ELSE \E errType \in retryableErrors : errType \in Serialized(error)

\* The custom predicate of the repository's test
\* 'shouldRetryThisError works with non-existent model error'.
customShouldRetryThisError(error) ==
    "does not exist" \in Fragments(error.message)


\* ------------------------------------------------------------------ state
Callers == {"c1", "c2"}
\* The caller of the sequential specification Spec.
SoloCallers == {"c1"}

VARIABLES
    settings,           \* Settings: models (their number), retryAfterOutput,
                        \* shouldRetryThisError, onError (configured or not)
    currentModelIndex,  \* FallbackModel.currentModelIndex
    lastModelReset,     \* FallbackModel.lastModelReset
    now,                \* Date.now()
    call,               \* per caller: the position of its call and what it
                        \* has observed so far
    switchedAt,         \* observer: when switchToNextModel last moved the index
                        \* off the primary (left) and when it last ran (last)
    observe,            \* observer: what a behaviour records besides the
                        \* program's state; fixed by the specification's Init
    probe               \* the last call of an operation that is no doGenerate
                        \* or doStream: what it was given and what it gave

vars == <<settings, currentModelIndex, lastModelReset, now, call,
          switchedAt, observe, probe>>

NoProbe == [op |-> "none", input |-> 0, output |-> 0]

IdleCall ==
    [ op |-> "none",            \* "doGenerate" | "doStream"
      pc |-> "idle",            \* the await the call is suspended at
      initialModel |-> 0,       \* retry(): const initialModel
      target |-> 0,             \* backend of the dispatch in flight / being read
      depth |-> 0,              \* nesting of doStream inside recovery
      hasStreamedAny |-> FALSE, \* doStream: let hasStreamedAny (innermost)
      lastError |-> NoError,    \* the error being handled
      pos |-> 0,                \* chunks read from the backend stream in hand
      reads |-> 0,              \* chunks read in this call, all backends
      attempts |-> <<>>,        \* backends dispatched to, in order
      notified |-> <<>>,        \* onError invocations: error and modelId
      classified |-> <<>>,      \* errors handed to the predicate, in order
      consulted |-> <<>>,       \* the predicate each of them was handed to
      cancelled |-> FALSE,      \* the caller has cancelled the stream it got
      emitted |-> <<>>,         \* chunks the backends' streams yielded
      out |-> <<>>,             \* chunks enqueued to the caller's stream
      ended |-> <<>>,           \* close / error events the caller's stream got
      outcome |-> "pending",    \* "returned" | "threw" | "closed" | "errored"
      value |-> NoError,        \* the error of "threw" / "errored"
      result |-> -1 ]           \* doGenerate: the backend whose result returned

N == settings.models

ModelIdOf(index) == index

TypeOK ==
    /\ settings.models \in 1..MaxModels
    /\ currentModelIndex \in 0..(N - 1)
    /\ lastModelReset \in 0..MaxTime
    /\ now \in 0..MaxTime
    /\ \A c \in Callers : call[c].pc \in
           {"idle", "fn", "retryOnError", "read", "catchOnError", "done"}

\* The state after construction (lines 89-101), whatever is observed.
Constructed ==
    /\ settings \in [ models : 1..MaxModels,
                      retryAfterOutput : BOOLEAN,
                      shouldRetryThisError : {"default", "custom"},
                      onError : BOOLEAN ]
    /\ currentModelIndex = 0
    /\ lastModelReset = 0
    /\ now = 0
    /\ call = [c \in Callers |-> IdleCall]
    /\ switchedAt = [left |-> -1, last |-> -1]
    /\ probe = NoProbe

\* Observation "history": every call keeps the full record of what it did.
Init == Constructed /\ observe = "history"

\* --------------------------------------------------------------- helpers
\* Mutant of shouldRetry: every error is retried.
shouldRetryAlways(error) == TRUE

\* Mutant of PredicateInUse: the configured predicate is ignored.
PredicateInUseDefault == "default"

\* 'this.settings.shouldRetryThisError || defaultShouldRetryThisError'
PredicateInUse ==
    IF settings.shouldRetryThisError = "custom" THEN "custom" ELSE "default"

\* lines 133-135 and 180-181: the custom predicate if configured, else the default
shouldRetry(error) ==
    IF PredicateInUse = "custom"
    THEN customShouldRetryThisError(error)
    ELSE defaultShouldRetryThisError(error)

\* Mutant of ResetDue: the reset waits until more than the interval has passed.
ResetDueLate(index, last, time) ==
    time - last > ResetInterval /\ index # 0

\* checkAndResetModel: the index and lastModelReset after the check
ResetDue(index, last, time) ==
    time - last >= ResetInterval /\ index # 0

checkAndResetModel(index, last, time) ==
    IF ResetDue(index, last, time)
    THEN [index |-> 0, last |-> time]
    ELSE [index |-> index, last |-> last]

\* Mutant of switchToNextModel: the advance does not wrap around.
switchToNextModelUnbounded(index) == index + 1

\* Mutant of switchToNextModel: the advance skips a backend.
switchToNextModelSkips(index) == (index + 2) % N

switchToNextModel(index) == (index + 1) % N

\* Mutant of CycleExhausted: the dispatch loop never gives up.
CycleNeverExhausted(index, initialModel) == FALSE

\* Mutant of CycleExhausted: the cycle is taken to end at the primary, as the
\* relay's recovery does.
CycleExhaustedAtPrimary(index, initialModel) == index = 0

\* retry(): 'if (this.currentModelIndex === initialModel) throw lastError'
CycleExhausted(index, initialModel) == index = initialModel

\* Mutant of RecoveryAllowed: retryAfterOutput is ignored, recovery only
\* before output.
RecoveryOnlyBeforeOutput(hasStreamedAny) == ~hasStreamedAny

\* Mutant of RecoveryAllowed: recovery whatever was delivered.
RecoveryAlways(hasStreamedAny) == TRUE

\* doStream catch: 'if (!hasStreamedAny || self.retryAfterOutput)'
RecoveryAllowed(hasStreamedAny) == ~hasStreamedAny \/ settings.retryAfterOutput

\* doStream catch: 'if (self.currentModelIndex === 0)'
RecoveryAborted(index) == index = 0

\* Mutant of InspectsChunk: error chunks are never inspected.
InspectsNothing(hasStreamedAny, chunk) == FALSE

\* read loop: the chunk is an in-band error inspected by the predicate
InspectsChunk(hasStreamedAny, chunk) == ~hasStreamedAny /\ chunk.type = "error"

\* Mutant of CountsAsOutput: a forwarded error chunk does not count as output.
CountsOnlyText(chunk) == chunk.type = "text"

\* Mutant of CountsAsOutput: every forwarded chunk counts as output.
CountsEveryChunk(chunk) == TRUE

\* read loop: 'if (value?.type !== 'stream-start') hasStreamedAny = true'
CountsAsOutput(chunk) == chunk.type # "stream-start"

\* Mutant of OnErrorModelId: modelId is read after the switch.
OnErrorModelIdAfterSwitch(index, target) == ModelIdOf(switchToNextModel(index))

\* the modelId handed to onError: this.modelId, read when onError is invoked
OnErrorModelId(index, target) == ModelIdOf(index)


\* --------------------------------------------------- pieces of the handlers
\* Each piece yields the selector state and the caller's record it leaves:
\* [index, last, c].

\* A piece that leaves the selector state as it found it.
Stay(index, last, cr) ==
    [index |-> index, last |-> last, switched |-> FALSE, c |-> cr]

\* fn(): the request goes to the backend at the current index (lines 169, 184)
Dispatch(cr, index) ==
    [cr EXCEPT !.pc = "fn", !.target = index, !.pos = 0,
               !.attempts = Append(@, index)]

\* controller.close() / controller.error(e) takes effect on the stream the
\* caller holds: the event and the number of chunks enqueued before it.
Terminal(cr, event) ==
    [cr EXCEPT !.ended = Append(@, [event |-> event, after |-> Len(cr.out)])]

\* retry() throws.  The outermost doStream / doGenerate rejects the caller's
\* promise; a doStream awaited inside a recovery lands in 'catch (nextError)'
\* (line 253), which errors the caller's stream.
RetryThrows(cr, error) ==
    LET ends == IF ~cr.cancelled /\ cr.op = "doStream" /\ cr.depth > 0
                THEN Terminal(cr, "error") ELSE cr IN
    [ends EXCEPT !.pc = "done",
                 !.outcome = IF cr.cancelled THEN "cancelled"
                             ELSE IF cr.op = "doStream" /\ cr.depth > 0
                             THEN "errored" ELSE "threw",
                 !.value = error]

\* lines 143-150: switch, give up after a full cycle, else call fn() again
RetryAdvance(index, last, cr) ==
    LET next == switchToNextModel(index) IN
    [ index |-> next, last |-> last, switched |-> TRUE,
      c |-> IF CycleExhausted(next, cr.initialModel)
            THEN RetryThrows(cr, cr.lastError)
            ELSE Dispatch(cr, next) ]

\* lines 130-142: the catch of retry(), up to the await of onError
RetryCatch(index, last, cr, error) ==
    LET seen == [cr EXCEPT !.lastError = error,
                           !.classified = Append(@, error),
                           !.consulted = Append(@, PredicateInUse)] IN
    IF ~shouldRetry(error)
    THEN Stay(index, last, RetryThrows(seen, error))
    ELSE IF settings.onError
         THEN Stay(index, last,
                   [seen EXCEPT
                         !.pc = "retryOnError",
                         !.notified = Append(@,
                            [error |-> error,
                             modelId |-> OnErrorModelId(index, cr.target)])])
         ELSE RetryAdvance(index, last, seen)

\* controller.error(error) on the caller-facing stream (lines 238, 254, 264);
\* it does nothing to a stream the caller has cancelled
StreamErrors(cr, error) ==
    LET ends == IF cr.cancelled THEN cr ELSE Terminal(cr, "error") IN
    [ends EXCEPT !.pc = "done",
                 !.outcome = IF cr.cancelled THEN "cancelled" ELSE "errored",
                 !.value = error]

\* lines 233-264: the catch of the relay, after onError has been awaited
CatchRecover(index, last, time, cr) ==
    IF RecoveryAllowed(cr.hasStreamedAny)
    THEN LET next == switchToNextModel(index) IN
         IF RecoveryAborted(next)
         THEN [ index |-> next, last |-> last, switched |-> TRUE,
                c |-> StreamErrors(cr, cr.lastError) ]
         ELSE \* self.doStream(options): lines 178-186 run again
              LET r == checkAndResetModel(next, last, time) IN
              [ index |-> r.index, last |-> r.last, switched |-> TRUE,
                c |-> Dispatch([cr EXCEPT !.initialModel = r.index,
                                          !.depth = @ + 1], r.index) ]
    ELSE Stay(index, last, StreamErrors(cr, cr.lastError))

\* Mutant of StreamCatch: onError is called and not awaited, the recovery
\* goes on in the same step.
StreamCatchNoAwait(index, last, time, cr, error) ==
    LET seen == [cr EXCEPT !.lastError = error] IN
    IF settings.onError
    THEN CatchRecover(index, last, time,
              [seen EXCEPT
                 !.notified = Append(@,
                    [error |-> error,
                     modelId |-> OnErrorModelId(index, cr.target)])])
    ELSE CatchRecover(index, last, time, seen)

\* Mutant of StreamCatch: the catch consults the predicate and ends the
\* caller's stream on a non-retryable error.
StreamCatchClassifies(index, last, time, cr, error) ==
    LET seen == [cr EXCEPT !.lastError = error] IN
    IF ~shouldRetry(error)
    THEN Stay(index, last, StreamErrors(seen, error))
    ELSE CatchRecover(index, last, time, seen)

\* lines 225-231: the catch of the relay, up to the await of onError
StreamCatch(index, last, time, cr, error) ==
    LET seen == [cr EXCEPT !.lastError = error] IN
    IF settings.onError
    THEN Stay(index, last,
              [seen EXCEPT
                 !.pc = "catchOnError",
                 !.notified = Append(@,
                    [error |-> error,
                     modelId |-> OnErrorModelId(index, cr.target)])])
    ELSE CatchRecover(index, last, time, seen)

\* A chunk of a backend's stream: 'stream-start', 'text' (any content part)
\* or 'error' (with its error), tagged with the backend, the dispatch and its
\* place in that dispatch's stream.
Chunk(cr, type, error) ==
    [ type |-> type, error |-> error, from |-> cr.target,
      seq |-> Len(cr.attempts), pos |-> cr.pos ]

\* Mutant of Forward: the chunk is enqueued twice.
ForwardTwice(cr, chunk) ==
    [cr EXCEPT !.out = Append(Append(@, chunk), chunk),
               !.hasStreamedAny = @ \/ CountsAsOutput(chunk)]

\* lines 218-222: controller.enqueue(value), then the output flag.  During a
\* hand-off the chunk passes through the inner relay's stream first (line 218
\* of the inner call) and reaches the caller by line 250, where a cancelled
\* stream takes nothing more.
Forward(cr, chunk) ==
    [cr EXCEPT !.out = IF cr.cancelled THEN @ ELSE Append(@, chunk),
               !.hasStreamedAny = @ \/ CountsAsOutput(chunk)]

\* 'await reader.read()' yields a chunk of the backend's stream (line 202)
Emit(cr, chunk) ==
    [cr EXCEPT !.emitted = Append(@, chunk), !.pos = @ + 1, !.reads = @ + 1]


\* What a call's record keeps under each observation. "history" keeps all of
\* it; "attempts" keeps the dispatches and the onError calls; "clock" keeps
\* the dispatches; "state" keeps only what the code itself holds (the hand-off
\* depth matters to the code only as zero or not); "control" keeps only what
\* decides the call's next steps (no error values, results or outcomes, no
\* count of chunks; the place in a backend's stream only as first or not).
\* The terminal events without their place among the chunks.
Unplaced(ended) == [i \in DOMAIN ended |-> [ended[i] EXCEPT !.after = 0]]

Observed(cr) ==
    CASE observe = "history" -> cr
      [] observe = "attempts" ->
            [cr EXCEPT !.classified = <<>>, !.consulted = <<>>,
                       !.emitted = <<>>, !.out = <<>>,
                       !.ended = Unplaced(@)]
      [] observe = "clock" ->
            [cr EXCEPT !.classified = <<>>, !.consulted = <<>>,
                       !.notified = <<>>, !.emitted = <<>>, !.out = <<>>,
                       !.ended = Unplaced(@)]
      [] observe = "control" ->
            [cr EXCEPT !.attempts = <<>>, !.classified = <<>>,
                       !.consulted = <<>>, !.notified = <<>>,
                       !.emitted = <<>>, !.out = <<>>,
                       !.ended = <<>>,
                       !.depth = IF @ > 0 THEN 1 ELSE 0,
                       !.pos = IF @ > 0 THEN 1 ELSE 0,
                       !.reads = 0, !.target = 0, !.result = 0,
                       !.outcome = "pending",
                       !.lastError = NoError, !.value = NoError]
      [] OTHER ->
            [cr EXCEPT !.attempts = <<>>, !.classified = <<>>,
                       !.consulted = <<>>, !.notified = <<>>,
                       !.emitted = <<>>, !.out = <<>>,
                       !.ended = Unplaced(@),
                       !.depth = IF @ > 0 THEN 1 ELSE 0]

\* When switchToNextModel ran in a step taken at the given time.
SwitchedAt(index, time, step) ==
    IF observe = "clock" /\ step.switched
    THEN [ left |-> IF index = 0 /\ switchToNextModel(index) # 0
                    THEN time ELSE switchedAt.left,
           last |-> time ]
    ELSE switchedAt

\* The relay reading the backend writes to the stream the caller holds and
\* the caller has cancelled it: enqueue and close throw inside the try block.
WritesToCancelled(cr) == cr.cancelled /\ cr.depth = 0

\* line 218: controller.enqueue(value) and what follows it
Enqueue(index, last, time, cr, chunk) ==
    IF WritesToCancelled(cr)
    THEN StreamCatch(index, last, time, cr,
                     MakeError(InvalidState, "controller", cr))
    ELSE Stay(index, last, Forward(cr, chunk))

\* line 224: controller.close() after the backend's stream has ended
Close(index, last, time, cr) ==
    IF WritesToCancelled(cr)
    THEN StreamCatch(index, last, time, cr,
                     MakeError(InvalidState, "controller", cr))
    ELSE Stay(index, last,
              [(IF cr.cancelled THEN cr ELSE Terminal(cr, "close"))
                  EXCEPT !.pc = "done",
                         !.outcome = IF cr.cancelled THEN "cancelled"
                                     ELSE "closed"])

\* The effect of one handler step on the multiplexer and on the caller.
Apply(c, step) ==
    /\ Len(Observed(step.c).attempts) <= MaxDispatches
    /\ currentModelIndex' = step.index
    /\ lastModelReset' = step.last
    /\ call' = [call EXCEPT ![c] = Observed(step.c)]
    /\ switchedAt' = SwitchedAt(currentModelIndex, now, step)
    /\ UNCHANGED <<settings, now, observe, probe>>

\* ---------------------------------------------------------------- actions
Tick ==
    /\ now < MaxTime
    /\ now' = now + 1
    /\ UNCHANGED <<settings, currentModelIndex, lastModelReset, call,
                   switchedAt, observe, probe>>

\* The start of a call: checkAndResetModel(), then retry() records
\* initialModel and calls fn(), which dispatches to the current backend.
StartCall(index, last, time, op) ==
    LET r == checkAndResetModel(index, last, time) IN
    [ index |-> r.index, last |-> r.last, switched |-> FALSE,
      c |-> Dispatch([IdleCall EXCEPT !.op = op, !.initialModel = r.index],
                     r.index) ]

\* doGenerate, lines 167-170, up to the first await
DoGenerate(c) ==
    /\ call[c].pc \in {"idle", "done"}
    /\ Apply(c, StartCall(currentModelIndex, lastModelReset, now, "doGenerate"))

\* doStream, lines 178-186, up to the first await
DoStream(c) ==
    /\ call[c].pc \in {"idle", "done"}
    /\ Apply(c, StartCall(currentModelIndex, lastModelReset, now, "doStream"))

\* 'await fn()' fulfils: doGenerate returns the result; doStream builds the
\* wrapped stream, whose start() takes the reader and awaits the first read
FnFulfilled(c) ==
    /\ call[c].pc = "fn"
    /\ Apply(c, Stay(currentModelIndex, lastModelReset,
                      IF call[c].op = "doGenerate"
                      THEN [call[c] EXCEPT !.pc = "done",
                                           !.outcome = "returned",
                                           !.result = call[c].target]
                      ELSE [call[c] EXCEPT !.pc = "read",
                                           !.hasStreamedAny = FALSE,
                                           !.pos = 0]))

\* 'await fn()' rejects
FnRejected(c) ==
    /\ call[c].pc = "fn"
    /\ \E kind \in ErrorKinds :
         Apply(c, RetryCatch(currentModelIndex, lastModelReset, call[c],
                     MakeError(kind, "dispatch", call[c])))

\* 'await this.settings.onError(...)' in retry() returns
RetryOnErrorSettled(c) ==
    /\ call[c].pc = "retryOnError"
    /\ Apply(c, RetryAdvance(currentModelIndex, lastModelReset, call[c]))

\* reader.read() yields a chunk that carries no error
ReadChunk(c) ==
    /\ call[c].pc = "read"
    /\ call[c].reads < MaxChunks
    /\ \E type \in {"stream-start", "text"} :
         /\ type = "stream-start" => call[c].pos = 0
         /\ Apply(c, Enqueue(currentModelIndex, lastModelReset, now,
                              Emit(call[c], Chunk(call[c], type, NoError)),
                              Chunk(call[c], type, NoError)))

\* reader.read() yields an in-band error chunk
ReadErrorChunk(c) ==
    /\ call[c].pc = "read"
    /\ call[c].reads < MaxChunks
    /\ \E kind \in ErrorKinds :
         LET error == MakeError(kind, "in-band", call[c])
             chunk == Chunk(call[c], "error", error)
             cr == Emit(call[c], chunk)
             seen == [cr EXCEPT !.classified = Append(@, error),
                                !.consulted = Append(@, PredicateInUse)]
         IN  IF InspectsChunk(cr.hasStreamedAny, chunk)
             THEN IF shouldRetry(error)
                  THEN Apply(c, StreamCatch(currentModelIndex, lastModelReset, now,
                                    seen, error))
                  ELSE Apply(c, Enqueue(currentModelIndex, lastModelReset, now,
                                        seen, chunk))
             ELSE Apply(c, Enqueue(currentModelIndex, lastModelReset, now,
                                   cr, chunk))

\* reader.read() reports the end of the backend's stream: controller.close()
ReadDone(c) ==
    /\ call[c].pc = "read"
    /\ Apply(c, Close(currentModelIndex, lastModelReset, now, call[c]))

\* reader.read() rejects: the backend's stream failed out of band
ReadRejected(c) ==
    /\ call[c].pc = "read"
    /\ \E kind \in ErrorKinds :
         Apply(c, StreamCatch(currentModelIndex, lastModelReset, now, call[c],
                     MakeError(kind, "out-of-band", call[c])))

\* 'await self.settings.onError(...)' in the relay's catch returns
CatchOnErrorSettled(c) ==
    /\ call[c].pc = "catchOnError"
    /\ Apply(c, CatchRecover(currentModelIndex, lastModelReset, now, call[c]))

\* The caller cancels the stream doStream gave it.  The wrapped stream is
\* built with start() alone (lines 190-273): nothing of the relay runs.
Cancel(c) ==
    /\ call[c].op = "doStream"
    /\ ~call[c].cancelled
    /\ call[c].pc # "done"
    /\ call[c].depth > 0 \/ call[c].pc \in {"read", "catchOnError"}
    /\ Apply(c, Stay(currentModelIndex, lastModelReset,
                      [call[c] EXCEPT !.cancelled = TRUE]))

Step(c) ==
    \/ DoGenerate(c)
    \/ DoStream(c)
    \/ FnFulfilled(c)
    \/ FnRejected(c)
    \/ RetryOnErrorSettled(c)
    \/ ReadChunk(c)
    \/ ReadErrorChunk(c)
    \/ ReadDone(c)
    \/ ReadRejected(c)
    \/ CatchOnErrorSettled(c)

\* One caller, one call at a time.
Next == Tick \/ \E c \in SoloCallers : Step(c)

Spec == Init /\ [][Next]_vars

\* Observation "state": a call keeps no record, so a call that goes round and
\* round comes back to a state it was in before.
InitLive == Constructed /\ observe = "state"

\* What the backends and the onError callback do to a call in flight: every
\* promise the call awaits settles.
Settles(c) ==
    \/ FnFulfilled(c)
    \/ FnRejected(c)
    \/ RetryOnErrorSettled(c)
    \/ ReadChunk(c)
    \/ ReadErrorChunk(c)
    \/ ReadDone(c)
    \/ ReadRejected(c)
    \/ CatchOnErrorSettled(c)

\* Before 'new FallbackModel(settings)': no multiplexer, no backend.
InitUnbuilt ==
    /\ settings = [ models |-> 0, retryAfterOutput |-> TRUE,
                    shouldRetryThisError |-> "default", onError |-> FALSE ]
    /\ currentModelIndex = 0
    /\ lastModelReset = 0
    /\ now = 0
    /\ call = [c \in Callers |-> IdleCall]
    /\ switchedAt = [left |-> -1, last |-> -1]
    /\ probe = NoProbe
    /\ observe = "state"

\* A multiplexer has been constructed.
Built == settings.models >= 1

\* Mutant of NoModels: the constructor never finds the list empty.
NoModelsNever(s) == FALSE

\* lines 98-100: '!this.settings.models[this.currentModelIndex]'
NoModels(s) == s.models = 0

\* createFallback(settings) / new FallbackModel(settings), lines 89-101: the
\* field initialisers set currentModelIndex = 0 and lastModelReset =
\* Date.now(); an empty list makes the constructor throw.
Construct(s) ==
    /\ ~Built
    /\ IF NoModels(s)
       THEN /\ probe' = [op |-> "construct", input |-> s.models,
                         output |-> "threw"]
            /\ UNCHANGED <<settings, currentModelIndex, lastModelReset>>
       ELSE /\ probe' = [op |-> "construct", input |-> s.models,
                         output |-> "ok"]
            /\ settings' = s
            /\ currentModelIndex' = 0
            /\ lastModelReset' = now
    /\ UNCHANGED <<now, call, switchedAt, observe>>

NextConstruct ==
    \/ \E s \in [ models : 0..MaxModels,
                   retryAfterOutput : BOOLEAN,
                   shouldRetryThisError : {"default", "custom"},
                   onError : BOOLEAN ] : Construct(s)
    \/ Tick
    \/ Built /\ \E c \in SoloCallers : Step(c)

\* Construction, then one caller's calls.
SpecConstruct == InitUnbuilt /\ [][NextConstruct]_vars

\* The status codes and messages of the errors handed to the classifier:
\* 0 stands for an error without statusCode, "" for one without message.
StatusCodes ==
    {0, 400, 401, 403, 404, 408, 409, 413, 429, 498, 499, 500, 501, 503}

Messages == {"", "upstream failure", "Overloaded", "rate_limit exceeded"}

\* defaultShouldRetryThisError(error) is called (it is exported).
Classify(statusCode, message) ==
    /\ probe' = [ op |-> "classify",
                  input |-> [statusCode |-> statusCode, message |-> message],
                  output |-> defaultShouldRetryThisError(
                               [statusCode |-> statusCode, message |-> message]) ]
    /\ UNCHANGED <<settings, currentModelIndex, lastModelReset, now, call,
                   switchedAt, observe>>

NextClassify ==
    \E statusCode \in StatusCodes, message \in Messages :
       Classify(statusCode, message)

\* The default classifier applied to every error of StatusCodes x Messages.
SpecClassify == InitLive /\ [][NextClassify]_vars

\* Observation "clock": a behaviour records when the index was advanced.
InitClock == Constructed /\ observe = "clock"

SpecClock == InitClock /\ [][Next]_vars

\* Observation "attempts": each call records its dispatches and onError calls.
InitConc == Constructed /\ observe = "attempts"

\* The steps of a doGenerate call.
Generates(c) ==
    \/ DoGenerate(c)
    \/ FnFulfilled(c)
    \/ FnRejected(c)
    \/ RetryOnErrorSettled(c)

\* Two callers share the multiplexer: their doGenerate calls interleave at
\* every await.
NextConc == Tick \/ \E c \in Callers : Generates(c)

SpecConc == InitConc /\ [][NextConc]_vars

\* The relay's own continuations: an awaited onError callback returns.
Continues(c) ==
    \/ RetryOnErrorSettled(c)
    \/ CatchOnErrorSettled(c)

NextCancel == Next \/ \E c \in SoloCallers : Cancel(c)

\* One caller that may cancel its stream.  Callbacks return; nothing is
\* assumed of when a backend answers, yields a chunk or ends.
SpecCancel ==
    /\ InitLive
    /\ [][NextCancel]_vars
    /\ \A c \in SoloCallers : WF_vars(Continues(c))

\* Observation "control": only what decides each call's next steps is kept.
InitControl == Constructed /\ observe = "control"

\* Two callers share the multiplexer: their doGenerate and doStream calls
\* interleave at every await.
NextAll == Tick \/ \E c \in Callers : Step(c)

SpecAll == InitControl /\ [][NextAll]_vars

\* Two callers' doGenerate calls, no record kept; every awaited backend
\* attempt and every awaited callback of either call eventually settles.
SpecConcLive ==
    /\ InitLive
    /\ [][NextConc]_vars
    /\ \A c \in Callers : WF_vars(Settles(c))

\* One caller; every awaited dispatch, read and callback eventually settles,
\* and a backend's stream ends after at most MaxChunks chunks.
SpecLive ==
    /\ InitLive
    /\ [][Next]_vars
    /\ \A c \in SoloCallers : WF_vars(Settles(c))


\* ------------------------------------------------------------------ claims
\* What the configured predicate says of an error, computed apart from the
\* engine's own use of it (shouldRetry above).
ActivePredicate(error) ==
    \/ settings.shouldRetryThisError = "custom" /\ customShouldRetryThisError(error)
    \/ settings.shouldRetryThisError = "default" /\ defaultShouldRetryThisError(error)

Fatal(error) == ~ActivePredicate(error)

\* The backend reached after `steps` advances from `index`.
Cyclic(index, steps) == (index + steps) % N

\* The j-th attempt of a call went to the j-th backend of the cycle that
\* starts at the call's initialModel.
InCyclicOrder(cr) ==
    \A j \in 1..Len(cr.attempts) : cr.attempts[j] = Cyclic(cr.initialModel, j - 1)

\* C1: a doGenerate call (one call in flight, N >= 2) whose first k-1 attempts
\* fail retryably and whose k-th attempt succeeds returns the k-th attempt's
\* result, and currentModelIndex is then (initialIndex + k - 1) mod N: the
\* index of the backend that answered, with no rollback to the primary.
C1_GenerateFailover ==
    \A c \in SoloCallers :
      LET cr == call[c]
          k == Len(cr.attempts)
      IN  (N >= 2 /\ cr.op = "doGenerate" /\ cr.outcome = "returned") =>
            /\ k <= N
            /\ Len(cr.classified) = k - 1
            /\ \A j \in 1..(k - 1) :
                 /\ ActivePredicate(cr.classified[j])
                 /\ cr.classified[j].from = Cyclic(cr.initialModel, j - 1)
            /\ InCyclicOrder(cr)
            /\ cr.result = Cyclic(cr.initialModel, k - 1)
            /\ currentModelIndex = Cyclic(cr.initialModel, k - 1)

\* C1 witness: two retryable failures, then the third attempt succeeds, in a
\* call that began on a non-primary backend (the cycle wraps past the end).
C1_Witness ==
    \E c \in SoloCallers :
      /\ call[c].op = "doGenerate" /\ call[c].outcome = "returned"
      /\ Len(call[c].attempts) = 3
      /\ call[c].initialModel = 1
      /\ call[c].result = 0

\* C2: a doGenerate call (one call in flight) in which every backend fails
\* retryably fails with the error of the last backend attempted, has tried
\* each of the N backends exactly once in cyclic order from initialIndex, and
\* leaves currentModelIndex equal to initialIndex.
C2_GenerateExhausted ==
    \A c \in SoloCallers :
      LET cr == call[c] IN
      (cr.op = "doGenerate" /\ cr.outcome = "threw" /\ ActivePredicate(cr.value)) =>
        /\ Len(cr.attempts) = N
        /\ InCyclicOrder(cr)
        /\ \A i \in 0..(N - 1) :
             Cardinality({j \in 1..Len(cr.attempts) : cr.attempts[j] = i}) = 1
        /\ Len(cr.classified) = N
        /\ \A j \in 1..N : ActivePredicate(cr.classified[j])
        /\ cr.value = cr.classified[N]
        /\ cr.value.from = cr.attempts[N]
        /\ cr.value.seq = N
        /\ currentModelIndex = cr.initialModel

\* C2 witness: three backends, the call began at backend 1, all three failed.
C2_Witness ==
    \E c \in SoloCallers :
      /\ call[c].op = "doGenerate" /\ call[c].outcome = "threw"
      /\ ActivePredicate(call[c].value)
      /\ N = 3
      /\ call[c].attempts = <<1, 2, 0>>

\* C3: in doGenerate an attempt that fails with an error the active predicate
\* calls non-retryable fails the call at once with that very error: no other
\* backend is attempted after it, onError is not told of it, and
\* currentModelIndex stays on the backend that failed.
C3_GenerateFatal ==
    \A c \in SoloCallers :
      LET cr == call[c] IN
      (cr.op = "doGenerate" /\ cr.lastError # NoError /\ Fatal(cr.lastError)) =>
        /\ cr.pc = "done"
        /\ cr.outcome = "threw"
        /\ cr.value = cr.lastError
        /\ cr.lastError.seq = Len(cr.attempts)
        /\ cr.lastError.from = cr.attempts[Len(cr.attempts)]
        /\ currentModelIndex = cr.lastError.from
        /\ \A j \in 1..Len(cr.notified) : cr.notified[j].error # cr.lastError

\* C3 witness: the second attempt failed fatally while a third backend was
\* still untried.
C3_Witness ==
    \E c \in SoloCallers :
      /\ call[c].op = "doGenerate" /\ call[c].outcome = "threw"
      /\ Fatal(call[c].value)
      /\ N = 3
      /\ Len(call[c].attempts) = 2

Notification(error) == [error |-> error, modelId |-> ModelIdOf(error.from)]

\* C4: in doGenerate (one call in flight, onError configured) onError has been
\* invoked exactly once for each attempt that failed retryably, in order, with
\* that attempt's error and the modelId of the backend that failed, and never
\* for a fatal failure or a success.  With backends [A fails with 503,
\* B succeeds] the call returns B's result, currentModelIndex is 1 and
\* onError was invoked once, with (the 503 error, A).
C4_GenerateOnError ==
    \A c \in SoloCallers :
      LET cr == call[c]
          retried == SelectSeq(cr.classified, ActivePredicate)
      IN  (cr.op = "doGenerate" /\ settings.onError) =>
            /\ \A j \in 1..Len(cr.classified) :
                 /\ cr.classified[j].seq = j
                 /\ cr.classified[j].from = cr.attempts[j]
            /\ cr.notified = [j \in 1..Len(retried) |-> Notification(retried[j])]
            /\ ( /\ N = 2 /\ settings.shouldRetryThisError = "default"
                 /\ cr.initialModel = 0 /\ cr.outcome = "returned"
                 /\ Len(cr.classified) = 1 /\ cr.classified[1].statusCode = 503 )
               => /\ cr.result = 1
                  /\ currentModelIndex = 1
                  /\ Len(cr.notified) = 1
                  /\ cr.notified[1].error.statusCode = 503
                  /\ cr.notified[1].modelId = ModelIdOf(0)

\* C4 witness: the scenario [A fails with 503, B succeeds] has run.
C4_Witness ==
    \E c \in SoloCallers :
      /\ call[c].op = "doGenerate" /\ settings.onError
      /\ N = 2 /\ settings.shouldRetryThisError = "default"
      /\ call[c].outcome = "returned"
      /\ call[c].attempts = <<0, 1>>
      /\ Len(call[c].notified) = 1
      /\ call[c].notified[1].error.statusCode = 503


\* ------------------------------------------------------- streaming claims
IsMetadata(chunk) == chunk.type = "stream-start"

\* The chunks of `chunks` that came from the call's k-th dispatch.
OfDispatch(chunks, k) == SelectSeq(chunks, LAMBDA ch : ch.seq = k)

\* Chunk a was produced before chunk b: by an earlier dispatch, or earlier in
\* the same backend stream.
Before(a, b) == a.seq < b.seq \/ (a.seq = b.seq /\ a.pos < b.pos)

Range(seq) == {seq[i] : i \in 1..Len(seq)}

\* The streaming call of backends [B1, B2] that started at B1, was handed
\* over to B2 once, and ended with B2's stream ending normally.
HandedOverAndClosed(cr) ==
    /\ N = 2
    /\ cr.op = "doStream"
    /\ cr.attempts = <<0, 1>>
    /\ cr.outcome = "closed"

\* B1 yielded no content: only stream-start chunks and, at most, the
\* retryable in-band error chunk that failed it.
FailedBeforeContent(cr) ==
    \A ch \in Range(OfDispatch(cr.emitted, 1)) :
      IsMetadata(ch) \/ (ch.type = "error" /\ ActivePredicate(ch.error))

\* C5 as stated: when B1 fails before any content chunk and B2 then streams
\* successfully, the caller's sequence holds only chunks produced by B2.
C5_OnlySecondBackendChunks ==
    \A c \in SoloCallers :
      (HandedOverAndClosed(call[c]) /\ FailedBeforeContent(call[c])) =>
        \A ch \in Range(call[c].out) : ch.from = 1

\* C5, amended: when B1 fails before any content chunk and B2 then streams
\* successfully, the caller's sequence holds no content of B1: it is the
\* stream-start chunks B1 had emitted, if any, followed by all of B2's chunks
\* in order, and it ends successfully; onError has fired exactly once, with
\* B1's error and B1's modelId, and currentModelIndex is B2's index.
C5_StreamFailoverBeforeContent ==
    \A c \in SoloCallers :
      LET cr == call[c] IN
      (HandedOverAndClosed(cr) /\ FailedBeforeContent(cr)) =>
        /\ cr.out = SelectSeq(OfDispatch(cr.emitted, 1), IsMetadata)
                      \o OfDispatch(cr.emitted, 2)
        /\ \A ch \in Range(cr.out) : ch.from = 0 => IsMetadata(ch)
        /\ cr.lastError.from = 0 /\ cr.lastError.seq = 1
        /\ settings.onError => cr.notified = <<Notification(cr.lastError)>>
        /\ currentModelIndex = 1

\* C5 witness: B1 emitted stream-start and then failed, B2 streamed a chunk
\* and ended.
C5_Witness ==
    \E c \in SoloCallers :
      /\ HandedOverAndClosed(call[c]) /\ FailedBeforeContent(call[c])
      /\ settings.onError
      /\ Len(OfDispatch(call[c].emitted, 1)) >= 1
      /\ Len(OfDispatch(call[c].out, 2)) >= 1

\* B1 yielded content chunks only, and at least one.
EmittedContentOnly(cr) ==
    /\ OfDispatch(cr.emitted, 1) # <<>>
    /\ \A ch \in Range(OfDispatch(cr.emitted, 1)) : ch.type = "text"

\* C6: with retryAfterOutput = true and backends [B1, B2], a streaming call
\* that starts at B1, where B1 emits content chunks c1..cm and then fails, is
\* handed over; when B2 then streams successfully the caller's sequence is
\* exactly c1..cm followed by all of B2's chunks in order, nothing dropped or
\* duplicated, it ends successfully and currentModelIndex is B2's index.
C6_StreamFailoverAfterContent ==
    \A c \in SoloCallers :
      LET cr == call[c] IN
      ( /\ N = 2 /\ cr.op = "doStream" /\ settings.retryAfterOutput
        /\ cr.attempts # <<>> /\ cr.attempts[1] = 0
        /\ EmittedContentOnly(cr) ) =>
          /\ ( /\ cr.pc = "done"
               /\ cr.lastError.origin = "out-of-band"
               /\ cr.lastError.seq = 1 )
             => Len(cr.attempts) >= 2
          /\ HandedOverAndClosed(cr) =>
               /\ cr.out = cr.emitted
               /\ cr.out = OfDispatch(cr.emitted, 1) \o OfDispatch(cr.emitted, 2)
               /\ currentModelIndex = 1

\* C6 witness: B1 emitted a content chunk and failed, B2 emitted a chunk and
\* ended.
C6_Witness ==
    \E c \in SoloCallers :
      /\ settings.retryAfterOutput
      /\ HandedOverAndClosed(call[c]) /\ EmittedContentOnly(call[c])
      /\ Len(OfDispatch(call[c].out, 2)) >= 1

\* The serving backend failed out of band after a non-metadata chunk of its
\* stream had been delivered.
FailedAfterContent(cr) ==
    /\ cr.op = "doStream"
    /\ cr.lastError.origin = "out-of-band"
    /\ \E ch \in Range(cr.out) : ch.seq = cr.lastError.seq /\ ~IsMetadata(ch)

\* C7: with retryAfterOutput = false, when the serving backend has delivered
\* content and then fails, the caller's sequence ends with that error and
\* never with successful completion, no other backend is dispatched for the
\* call and currentModelIndex stays on the failed backend.
C7_NoRecoveryAfterContent ==
    \A c \in SoloCallers :
      LET cr == call[c] IN
      (~settings.retryAfterOutput /\ FailedAfterContent(cr)) =>
        /\ cr.pc \in {"catchOnError", "done"}
        /\ cr.pc = "done" => (cr.outcome = "errored" /\ cr.value = cr.lastError)
        /\ Len(cr.attempts) = cr.lastError.seq
        /\ currentModelIndex = cr.lastError.from

\* C7 witness: the first of two backends delivered content and failed, and
\* the caller's stream has been errored.
C7_Witness ==
    \E c \in SoloCallers :
      /\ ~settings.retryAfterOutput /\ FailedAfterContent(call[c])
      /\ N = 2 /\ call[c].attempts = <<0>>
      /\ call[c].outcome = "errored"

\* C8: in every streaming call the caller never receives the same backend
\* chunk twice and never a chunk of an earlier backend after a chunk of a
\* later one: the caller's sequence is a subsequence of what the backends
\* yielded, in the order they yielded it.
C8_NoDuplicateNoInterleave ==
    \A c \in SoloCallers :
      LET out == call[c].out IN
      /\ \A i, j \in 1..Len(out) : i < j => Before(out[i], out[j])
      /\ Range(out) \subseteq Range(call[c].emitted)

\* C8 witness: the caller has received chunks of two different dispatches.
C8_Witness ==
    \E c \in SoloCallers :
      /\ Len(call[c].out) >= 2
      /\ call[c].out[1].seq # call[c].out[Len(call[c].out)].seq

\* C9: when the serving backend's stream fails out of band with an error the
\* active predicate calls non-retryable, the caller's sequence is terminated
\* with that error, currentModelIndex is not advanced and no other backend is
\* dispatched.
C9_FatalStreamFailure ==
    \A c \in SoloCallers :
      LET cr == call[c] IN
      ( /\ cr.op = "doStream"
        /\ cr.lastError.origin = "out-of-band"
        /\ Fatal(cr.lastError)
        /\ cr.pc # "catchOnError" ) =>
          /\ cr.pc = "done"
          /\ cr.outcome = "errored"
          /\ cr.value = cr.lastError
          /\ Len(cr.attempts) = cr.lastError.seq
          /\ currentModelIndex = cr.lastError.from

\* C9, amended: an out-of-band failure of the serving backend's stream is not
\* classified.  Also when the active predicate calls its error non-retryable,
\* the predicate is not consulted, onError is invoked with it, and what
\* follows depends on delivered output and retryAfterOutput alone: the
\* caller's sequence is terminated with that error, with no advance and no
\* further dispatch, only when that backend had delivered non-metadata output
\* and retryAfterOutput is false; otherwise the index is advanced by one and
\* the call is handed off, or terminated with that error when the advanced
\* index is 0.
C9_UnclassifiedStreamFailure ==
    \A c \in SoloCallers :
      LET cr == call[c]
          e == cr.lastError
      IN
      ( /\ cr.op = "doStream"
        /\ e.origin = "out-of-band"
        /\ Fatal(e)
        /\ cr.pc # "catchOnError" ) =>
          /\ e \notin Range(cr.classified)
          /\ settings.onError => Notification(e) \in Range(cr.notified)
          /\ IF FailedAfterContent(cr) /\ ~settings.retryAfterOutput
             THEN /\ cr.pc = "done" /\ cr.outcome = "errored" /\ cr.value = e
                  /\ Len(cr.attempts) = e.seq
                  /\ currentModelIndex = e.from
             ELSE \/ /\ cr.pc = "done" /\ cr.outcome = "errored" /\ cr.value = e
                     /\ Len(cr.attempts) = e.seq
                     /\ Cyclic(e.from, 1) = 0
                     /\ currentModelIndex = 0
                  \/ /\ Len(cr.attempts) > e.seq
                     /\ cr.attempts[e.seq + 1] \in {Cyclic(e.from, 1), 0}

\* C9 witness: a non-retryable out-of-band failure before any output was
\* followed by a dispatch to the next backend.
C9_Witness ==
    \E c \in SoloCallers :
      LET cr == call[c] IN
      /\ cr.op = "doStream"
      /\ cr.lastError.origin = "out-of-band" /\ Fatal(cr.lastError)
      /\ cr.out = <<>>
      /\ cr.attempts = <<0, 1>>

\* C10: once a non-metadata chunk has been delivered to the caller by any
\* backend that served the call, every later in-band error chunk is forwarded
\* as ordinary content: it is not handled as a failure, so onError is not
\* invoked for it and no hand-off follows from it.
C10_ErrorChunkAfterOutputForwarded ==
    \A c \in SoloCallers :
      LET cr == call[c] IN
      \A ch \in Range(cr.emitted) :
        ( /\ ch.type = "error"
          /\ \E d \in Range(cr.out) : ~IsMetadata(d) /\ Before(d, ch) ) =>
            /\ ch \in Range(cr.out)
            /\ cr.lastError # ch.error
            /\ \A j \in 1..Len(cr.notified) : cr.notified[j].error # ch.error

\* An in-band error chunk that reached the relay before any non-metadata
\* chunk of the call had been delivered to the caller, and that the active
\* predicate calls retryable.
RetryableBeforeContent(cr, ch) ==
    /\ ch.type = "error"
    /\ ActivePredicate(ch.error)
    /\ \A d \in Range(cr.out) : Before(d, ch) => IsMetadata(d)

\* C11: in doStream, when the serving backend emits an in-band error chunk
\* before any non-metadata chunk has been delivered and the active predicate
\* calls its error retryable, the relay does not forward the chunk, consults
\* the predicate exactly once for that error, advances the index by one and
\* continues from the next backend (there being one, failed index + 1 < N);
\* when the stream then closes on that backend, currentModelIndex is the
\* failed index + 1.
C11_InBandRetryableHandOff ==
    \A c \in SoloCallers :
      LET cr == call[c] IN
      \A ch \in Range(cr.emitted) :
        ( /\ cr.op = "doStream"
          /\ RetryableBeforeContent(cr, ch)
          /\ ch.from + 1 < N
          /\ cr.pc # "catchOnError" ) =>
            /\ ch \notin Range(cr.out)
            /\ Cardinality({j \in 1..Len(cr.classified) :
                              cr.classified[j] = ch.error}) = 1
            /\ Len(cr.attempts) > ch.seq
            /\ cr.attempts[ch.seq + 1] = ch.from + 1
            /\ (cr.outcome = "closed" /\ Len(cr.attempts) = ch.seq + 1) =>
                 currentModelIndex = ch.from + 1

\* C12: within one logical doStream call the number of backend dispatches
\* (the first one, every hand-off after a stream failure and every
\* re-dispatch after a rejected dispatch) never exceeds N.
C12_StreamDispatchesAtMostN ==
    \A c \in SoloCallers :
      call[c].op = "doStream" => Len(call[c].attempts) <= N

\* C13: every doStream call eventually terminates the caller's sequence
\* (closed or errored), provided every dispatch, every backend stream and
\* every callback it awaits eventually settles.
C13_StreamCallTerminates ==
    \A c \in SoloCallers :
      (call[c].op = "doStream" /\ call[c].pc # "done") ~> (call[c].pc = "done")

\* A call begins in this step: doGenerate or doStream runs up to its dispatch.
Begins(c) ==
    /\ call[c].pc \in {"idle", "done"}
    /\ call'[c].pc = "fn"

\* C14: once the index has been advanced off backend 0, a doGenerate or
\* doStream call that begins at a time at least modelResetInterval after that
\* advance, with the index still off 0, sets currentModelIndex to 0 before it
\* dispatches, and dispatches to backend 0.
C14_ResetAfterInterval ==
    [][ \A c \in SoloCallers :
          ( /\ Begins(c)
            /\ currentModelIndex # 0
            /\ switchedAt.left >= 0
            /\ now - switchedAt.left >= ResetInterval ) =>
              /\ currentModelIndex' = 0
              /\ lastModelReset' = now
              /\ call'[c].initialModel = 0
              /\ call'[c].attempts = <<0>> ]_vars

\* C14 witness: a call has just begun on backend 0 by a reset made now, a full
\* interval after the index left backend 0, no advance having run since.
C14_Witness ==
    \E c \in SoloCallers :
      /\ call[c].pc = "fn" /\ call[c].attempts = <<0>>
      /\ switchedAt.left >= 0
      /\ switchedAt.last = switchedAt.left
      /\ now - switchedAt.left >= ResetInterval
      /\ lastModelReset = now

\* C15: every advance makes its own time the reference of the reset check, so
\* a call that begins with the index off 0 less than modelResetInterval after
\* the most recent advance keeps the index (no reset), however long ago the
\* multiplexer was constructed or last reset.
C15_AdvanceRestartsInterval ==
    [][ \A c \in SoloCallers :
          ( /\ Begins(c)
            /\ currentModelIndex # 0
            /\ switchedAt.last >= 0
            /\ now - switchedAt.last < ResetInterval ) =>
              /\ currentModelIndex' = currentModelIndex
              /\ call'[c].attempts = <<currentModelIndex>> ]_vars

\* C16: every doGenerate call makes at most N attempts and attempts no
\* backend twice, also when another call on the same multiplexer advances or
\* resets the shared index between its attempts.
C16_GenerateAttemptsDistinct ==
    \A c \in Callers :
      LET cr == call[c] IN
      cr.op = "doGenerate" =>
        /\ Len(cr.attempts) <= N
        /\ \A i, j \in 1..Len(cr.attempts) :
             cr.attempts[i] = cr.attempts[j] => i = j

\* C17: a doGenerate call fails with an error the active predicate calls
\* retryable only after that call itself has attempted every one of the N
\* backends, also when another call moves the shared index meanwhile.
C17_GenerateGivesUpAfterAll ==
    \A c \in Callers :
      LET cr == call[c] IN
      (cr.op = "doGenerate" /\ cr.outcome = "threw" /\ ActivePredicate(cr.value)) =>
        \A i \in 0..(N - 1) : i \in Range(cr.attempts)

\* C18: whenever onError is invoked, the identifier it is given is the
\* modelId of the backend whose attempt produced the error, also when another
\* call has advanced or reset the shared index between that attempt's
\* dispatch and its failure.
C18_OnErrorNamesFailedBackend ==
    \A c \in Callers :
      \A j \in 1..Len(call[c].notified) :
        call[c].notified[j].modelId = ModelIdOf(call[c].notified[j].error.from)

\* The relay holds the reader of the serving backend's stream and awaits its
\* next chunk (line 202).
ReaderHeld(cr) == cr.op = "doStream" /\ cr.pc = "read"

\* C19: once the caller has cancelled a stream, the relay eventually releases
\* the reader it holds on the serving backend's stream, whether or not that
\* backend ever yields another chunk or ends, also when the cancellation
\* comes during a recovery hand-off.
C19_CancelReleasesReader ==
    \A c \in SoloCallers :
      (call[c].cancelled /\ ReaderHeld(call[c])) ~> ~ReaderHeld(call[c])

\* The predicate the configuration names: the custom one when supplied.
ConfiguredPredicate == settings.shouldRetryThisError

\* C20, as stated: every retry-or-fatal decision of doGenerate and doStream is
\* the configured predicate's (the custom one when supplied, never the default
\* then; the default otherwise): only the configured predicate is consulted,
\* and no dispatch follows a failure that it calls non-retryable.
C20_EveryDecisionByPredicate ==
    \A c \in SoloCallers :
      LET cr == call[c] IN
      /\ \A j \in 1..Len(cr.consulted) : cr.consulted[j] = ConfiguredPredicate
      /\ (cr.lastError # NoError /\ Fatal(cr.lastError)) =>
            Len(cr.attempts) = cr.lastError.seq

\* C20, amended: whenever doGenerate or doStream classifies a failure (a
\* rejected dispatch, or an in-band error chunk met before output) it consults
\* the configured predicate alone, once, and acts on its result: a dispatch
\* error it calls fatal ends the call with that error, unreported and with no
\* further dispatch, and one it calls retryable is reported to onError and
\* followed by the advance; an error chunk it calls fatal is forwarded, and
\* one it calls retryable is withheld and handled as a failure.  Out-of-band
\* failures of a backend's stream are handled without any predicate.
C20_ConsultedPredicateDecides ==
    \A c \in SoloCallers :
      LET cr == call[c] IN
      /\ Len(cr.consulted) = Len(cr.classified)
      /\ \A j \in 1..Len(cr.consulted) : cr.consulted[j] = ConfiguredPredicate
      /\ \A e \in Range(cr.classified) :
           /\ e.origin \in {"dispatch", "in-band"}
           /\ (e.origin = "dispatch" /\ Fatal(e)) =>
                /\ cr.pc = "done" /\ cr.value = e
                /\ Len(cr.attempts) = e.seq
                /\ Notification(e) \notin Range(cr.notified)
           /\ (e.origin = "dispatch" /\ ActivePredicate(e)) =>
                /\ settings.onError => Notification(e) \in Range(cr.notified)
                /\ \/ cr.pc = "retryOnError" /\ cr.lastError = e
                   \/ Len(cr.attempts) > e.seq
                   \/ /\ cr.pc = "done" /\ cr.value = e
                      /\ currentModelIndex = cr.initialModel
           /\ (e.origin = "in-band" /\ Fatal(e)) =>
                /\ \E ch \in Range(cr.out) : ch.error = e
                /\ cr.lastError # e
                /\ Notification(e) \notin Range(cr.notified)
           /\ (e.origin = "in-band" /\ ActivePredicate(e)) =>
                /\ \A ch \in Range(cr.out) : ch.error # e
                /\ settings.onError => Notification(e) \in Range(cr.notified)
      /\ cr.lastError.origin = "out-of-band" =>
           cr.lastError \notin Range(cr.classified)

\* C20 witness: with a custom predicate supplied, a doStream call had its
\* dispatch rejected with an error only the custom predicate calls retryable
\* (404, 'does not exist') and went on to the next backend, whose error chunk
\* (503), which only the default calls retryable, was forwarded.
C20_Witness ==
    \E c \in SoloCallers :
      LET cr == call[c] IN
      /\ ConfiguredPredicate = "custom"
      /\ cr.op = "doStream"
      /\ Len(cr.classified) = 2
      /\ cr.classified[1].origin = "dispatch"
      /\ cr.classified[1].statusCode = 404
      /\ cr.classified[2].origin = "in-band"
      /\ cr.classified[2].statusCode = 503
      /\ \E ch \in Range(cr.out) : ch.error = cr.classified[2]
      /\ cr.attempts = <<0, 1>>

\* C21: for every error that carries a numeric status code the default
\* classifier answers retryable exactly when the code is one of 401, 403,
\* 408, 409, 413, 429, 498 or is at least 500, whatever the error's message.
C21_StatusCodeDecides ==
    (probe.op = "classify" /\ probe.input.statusCode # 0) =>
       ( probe.output <=>
           \/ probe.input.statusCode \in {401, 403, 408, 409, 413, 429, 498}
           \/ probe.input.statusCode >= 500 )

\* C22: constructing a multiplexer with an empty backend list fails with an
\* error and leaves no multiplexer; constructing one with N >= 1 backends
\* succeeds, with those N backends and, until a call is made,
\* currentModelIndex = 0.
C22_ConstructorNeedsBackend ==
    probe.op = "construct" =>
       /\ probe.input = 0 => (probe.output = "threw" /\ ~Built)
       /\ probe.input >= 1 =>
            /\ probe.output = "ok"
            /\ Built /\ N = probe.input
            /\ (\A c \in Callers : call[c].pc = "idle") =>
                  currentModelIndex = 0 /\ lastModelReset <= now

\* C22 witness: a multiplexer of three backends was constructed at time 1 and
\* no call has been made on it yet.
C22_Witness ==
    /\ probe = [op |-> "construct", input |-> 3, output |-> "ok"]
    /\ settings.models = 3
    /\ currentModelIndex = 0
    /\ lastModelReset = 1
    /\ \A c \in Callers : call[c].pc = "idle"

\* The call's last failure is a failure of a backend's stream (an error chunk
\* handled as a failure, or a rejected read) and the relay's catch has run.
StreamFailureHandled(cr) ==
    /\ cr.op = "doStream"
    /\ cr.lastError.origin \in {"in-band", "out-of-band"}
    /\ cr.pc # "catchOnError"

\* The call ended with error e and dispatched nothing after the failure e.
AbandonedAt(cr, e) ==
    /\ cr.pc = "done" /\ cr.outcome = "errored" /\ cr.value = e
    /\ Len(cr.attempts) = e.seq

\* C23: in doStream (retryAfterOutput on, so that recovery is permitted)
\* recovery from a stream failure is abandoned, the caller's stream ending
\* with the original error, exactly when the advanced index equals the index
\* at which the call began; so a call that began at i # 0 and fails on the
\* last backend hands off to backend 0.
C23_AbandonAtInitialIndex ==
    \A c \in SoloCallers :
      LET cr == call[c]
          e == cr.lastError
      IN  (StreamFailureHandled(cr) /\ settings.retryAfterOutput) =>
             ( AbandonedAt(cr, e) <=> Cyclic(e.from, 1) = cr.attempts[1] )

\* C24: when a doStream call has handed off after a stream failure on backend
\* i, the dispatch that follows the failure went to backend (i+1) mod N, and
\* no dispatch of the call after the failure went to backend i (N >= 2), also
\* when the hand-off's own lazy-reset check found a reset due.
C24_HandOffToNextBackend ==
    \A c \in SoloCallers :
      LET cr == call[c]
          e == cr.lastError
      IN  (StreamFailureHandled(cr) /\ N >= 2 /\ Len(cr.attempts) > e.seq) =>
             /\ cr.attempts[e.seq + 1] = Cyclic(e.from, 1)
             /\ \A k \in (e.seq + 1)..Len(cr.attempts) : cr.attempts[k] # e.from

\* C25: every doGenerate call eventually returns or fails, provided every
\* backend attempt eventually completes, under every fair interleaving of
\* concurrent calls on the same multiplexer.
C25_GenerateCallTerminates ==
    \A c \in Callers :
      (call[c].op = "doGenerate" /\ call[c].pc # "done") ~> (call[c].pc = "done")

\* C26: in doStream (one call in flight), when the latest failure is a
\* rejected dispatch: if the active predicate calls it non-retryable the call
\* has failed at once with that error, unreported and with the index where it
\* was; if it calls it retryable, onError (when configured) was invoked with
\* it, and once the callback has returned the index has been advanced and
\* either the next backend of the cycle was dispatched or, the advanced index
\* being the one at which this dispatch loop began, the call has failed with
\* that last error.
C26_StreamDispatchRejected ==
    \A c \in SoloCallers :
      LET cr == call[c]
          e == cr.lastError
      IN  (cr.op = "doStream" /\ e.origin = "dispatch") =>
            IF Fatal(e)
            THEN /\ cr.pc = "done" /\ cr.value = e
                 /\ cr.outcome = IF cr.depth = 0 THEN "threw" ELSE "errored"
                 /\ Len(cr.attempts) = e.seq
                 /\ currentModelIndex = e.from
                 /\ Notification(e) \notin Range(cr.notified)
            ELSE /\ settings.onError => Notification(e) \in Range(cr.notified)
                 /\ IF cr.pc = "retryOnError"
                    THEN Len(cr.attempts) = e.seq /\ currentModelIndex = e.from
                    ELSE IF Cyclic(e.from, 1) = cr.initialModel
                    THEN /\ cr.pc = "done" /\ cr.value = e
                         /\ Len(cr.attempts) = e.seq
                         /\ currentModelIndex = cr.initialModel
                    ELSE /\ Len(cr.attempts) > e.seq
                         /\ cr.attempts[e.seq + 1] = Cyclic(e.from, 1)

\* C26 witness: a doStream call of three backends began at backend 1, all
\* three rejected the dispatch retryably (each reported to onError), and the
\* call failed with the third error on returning to index 1.
C26_Witness ==
    \E c \in SoloCallers :
      LET cr == call[c] IN
      /\ cr.op = "doStream" /\ cr.outcome = "threw"
      /\ cr.attempts = <<1, 2, 0>>
      /\ cr.value.origin = "dispatch" /\ cr.value.from = 0
      /\ ActivePredicate(cr.value)
      /\ Len(cr.notified) = 3
      /\ currentModelIndex = 1

\* The failed dispatch had forwarded a chunk that is no stream-start.
DeliveredOutput(cr, e) ==
    \E d \in Range(cr.out) : d.seq = e.seq /\ ~IsMetadata(d)

FatalBeforeContent(cr, ch) ==
    /\ ch.type = "error"
    /\ Fatal(ch.error)
    /\ \A d \in Range(cr.out) : Before(d, ch) => IsMetadata(d)

\* C28: in doStream an in-band error chunk that arrives before any output and
\* that the active predicate calls non-retryable is forwarded as ordinary
\* content and counts as delivered output.  It is not handled as a failure
\* (no onError, not the call's error, and while it is the latest event no
\* advance, no dispatch and no termination other than the backend's stream
\* ending); every later chunk of the same backend is forwarded, error chunks
\* included and unclassified; and with retryAfterOutput = false a later
\* failure of that backend is not recovered from.
C28_FatalErrorChunkForwarded ==
    \A c \in SoloCallers :
      LET cr == call[c] IN
      \A ch \in Range(cr.emitted) :
        (cr.op = "doStream" /\ FatalBeforeContent(cr, ch)) =>
          /\ ch \in Range(cr.out)
          /\ Notification(ch.error) \notin Range(cr.notified)
          /\ cr.lastError # ch.error /\ cr.value # ch.error
          /\ (ch = cr.emitted[Len(cr.emitted)] /\ cr.lastError.seq < ch.seq) =>
               /\ cr.pc = "read" \/ (cr.pc = "done" /\ cr.outcome = "closed")
               /\ Len(cr.attempts) = ch.seq
               /\ currentModelIndex = ch.from
          /\ \A ch2 \in Range(cr.emitted) :
               (ch2.seq = ch.seq /\ ch2.pos > ch.pos) =>
                  /\ ch2 \in Range(cr.out)
                  /\ ch2.error \notin Range(cr.classified)
          /\ ( /\ ~settings.retryAfterOutput
               /\ StreamFailureHandled(cr)
               /\ cr.lastError.seq = ch.seq ) => AbandonedAt(cr, cr.lastError)

\* C28 witness: the first chunk of backend 0's stream was a non-retryable
\* error chunk; it and the text chunk after it were forwarded, and the stream
\* closed on backend 0.
C28_Witness ==
    \E c \in SoloCallers :
      LET cr == call[c] IN
      /\ cr.op = "doStream" /\ cr.outcome = "closed"
      /\ cr.attempts = <<0>>
      /\ Len(cr.out) = 2
      /\ cr.out[1].type = "error" /\ Fatal(cr.out[1].error)
      /\ cr.out[2].type = "text"
      /\ cr.notified = <<>>
      /\ currentModelIndex = 0

\* ------------------------------------------------------------ the getters
\* The getters (lines 78-86, 103-105) read settings.models[currentModelIndex]
\* and write nothing: the selector state after a read is the one before it.
Current(index, last, time) == [index |-> index, last |-> last]

Getters == {"modelId", "provider"}

\* get modelId() / get provider(): the field of the backend at the current
\* index.  The probe keeps which backend answered and whether a reset was
\* due at the time of the read.
ReadsCurrent(getter) ==
    LET cur == Current(currentModelIndex, lastModelReset, now) IN
    /\ probe' = [ op |-> getter,
                  input |-> IF ResetDue(currentModelIndex, lastModelReset, now)
                            THEN 1 ELSE 0,
                  output |-> ModelIdOf(cur.index) ]
    /\ currentModelIndex' = cur.index
    /\ lastModelReset' = cur.last
    /\ UNCHANGED <<settings, now, call, switchedAt, observe>>

NextFrame == NextCancel \/ \E getter \in Getters : ReadsCurrent(getter)

\* One caller's calls and cancellations, the clock and reads of the getters
\* in any order.
SpecFrame == InitLive /\ [][NextFrame]_vars

\* C29: in every reachable state, after any sequence and interleaving of
\* doGenerate and doStream calls, failures, advances and lazy resets,
\* 0 <= currentModelIndex < N: the current backend exists.
C29_IndexInRange ==
    currentModelIndex \in 0..(N - 1)

\* C29 witness: three backends, two calls in flight (a doStream in a hand-off
\* and a doGenerate awaiting its attempt), a lazy reset made at a time after
\* construction, and the index since advanced to the last backend.
C29_Witness ==
    /\ N = 3
    /\ currentModelIndex = 2
    /\ lastModelReset >= 1
    /\ call["c1"].op = "doStream" /\ call["c1"].depth >= 1
    /\ call["c1"].pc = "read"
    /\ call["c2"].op = "doGenerate" /\ call["c2"].pc = "fn"

\* The step is an attempt succeeding or its output being relayed: a dispatch
\* fulfilled, a chunk forwarded, the backend's stream ending.
Succeeds(c) ==
    \/ /\ call[c].pc = "fn"
       /\ \/ call'[c].pc = "read"
          \/ call'[c].pc = "done" /\ call'[c].outcome = "returned"
    \/ /\ call[c].pc = "read"
       /\ \/ call'[c].pc = "read"
          \/ call'[c].pc = "done" /\ call'[c].outcome = "closed"

\* The error is a failure of a backend's attempt: its dispatch rejected, or
\* its stream carried an error chunk or failed to yield.
BackendFailure(error) == error.origin \in {"dispatch", "in-band", "out-of-band"}

\* The step handles a failed attempt: a dispatch rejected or a backend's
\* stream failed, or the onError callback awaited for such a failure settling.
HandlesFailure(c) ==
    \/ /\ call[c].pc \in {"retryOnError", "catchOnError"}
       /\ BackendFailure(call[c].lastError)
    \/ /\ call[c].pc = "fn"
       /\ BackendFailure(call'[c].lastError)
       /\ \/ call'[c].pc \in {"retryOnError", "fn"}
          \/ call'[c].pc = "done" /\ call'[c].outcome \in {"threw", "errored"}
    \/ /\ call[c].pc = "read"
       /\ BackendFailure(call'[c].lastError)
       /\ \/ call'[c].pc \in {"catchOnError", "fn"}
          \/ call'[c].pc = "done" /\ call'[c].outcome = "errored"

\* C30: the selector state (currentModelIndex, lastModelReset) changes only in
\* a step that starts a call, where the lazy-reset check may force the index
\* to 0, or in a step that handles a failed attempt, where the index advances
\* cyclically (and the reset check of the call the recovery starts may then
\* force it to 0).  Steps in which an attempt succeeds or its output is
\* relayed, reads of modelId / provider, and the passing of time leave it as
\* it is, however long the reset has been due.
C30_SelectorFrame ==
    [][ /\ \A c \in SoloCallers :
             Succeeds(c) =>
                /\ currentModelIndex' = currentModelIndex
                /\ lastModelReset' = lastModelReset
        /\ (probe' # probe \/ now' # now) =>
                /\ currentModelIndex' = currentModelIndex
                /\ lastModelReset' = lastModelReset
        /\ \A c \in SoloCallers :
             Begins(c) => currentModelIndex' \in {currentModelIndex, 0}
        /\ (currentModelIndex' # currentModelIndex
              \/ lastModelReset' # lastModelReset) =>
                /\ \E c \in SoloCallers : Begins(c) \/ HandlesFailure(c)
                /\ currentModelIndex' \in {Cyclic(currentModelIndex, 1), 0}
                /\ lastModelReset' # lastModelReset =>
                      currentModelIndex' = 0 /\ lastModelReset' = now
      ]_vars

\* ------------------------------------------------- the callback may throw
\* What an onError callback that fails throws (or rejects with).
CallbackFailure == [statusCode |-> 0, message |-> "callback failed"]

\* 'await onError(...)' throws inside a catch block: the throw leaves retry()
\* (lines 140-142), which rejects, or leaves start() (lines 226-231), whose
\* rejection errors the wrapped stream; inside a recovery either lands in
\* 'catch (nextError)' (line 253).  switchToNextModel() is not reached.
OnErrorThrows(index, last, cr, error) ==
    Stay(index, last,
         IF cr.pc = "retryOnError"
         THEN RetryThrows(cr, error)
         ELSE StreamErrors(cr, error))

\* 'await this.settings.onError(...)' in retry() throws
RetryOnErrorThrew(c) ==
    /\ call[c].pc = "retryOnError"
    /\ Apply(c, OnErrorThrows(currentModelIndex, lastModelReset, call[c],
                    MakeError(CallbackFailure, "callback", call[c])))

\* 'await self.settings.onError(...)' in the relay's catch throws
CatchOnErrorThrew(c) ==
    /\ call[c].pc = "catchOnError"
    /\ Apply(c, OnErrorThrows(currentModelIndex, lastModelReset, call[c],
                    MakeError(CallbackFailure, "callback", call[c])))

NextCallback ==
    \/ Next
    \/ \E c \in SoloCallers : RetryOnErrorThrew(c) \/ CatchOnErrorThrew(c)

\* One caller whose onError callback may return or throw.
SpecCallback == InitConc /\ [][NextCallback]_vars

\* The call is suspended at the await of its onError callback.
Awaiting(cr) == cr.pc \in {"retryOnError", "catchOnError"}

\* C31: with onError configured, a call advances currentModelIndex and
\* dispatches its next attempt only in the step in which the callback it
\* awaited returns: the step that invokes the callback leaves the call
\* suspended at the await with the index and the dispatches as they were, and
\* a callback that throws ends the call with the callback's error, the index,
\* lastModelReset and the dispatches unchanged.
C31_OnErrorAwaited ==
    [][ \A c \in SoloCallers :
          LET cr == call[c]
              nx == call'[c]
          IN  /\ ( /\ settings.onError
                   /\ ~Begins(c)
                   /\ \/ currentModelIndex' # currentModelIndex
                      \/ nx.attempts # cr.attempts ) => Awaiting(cr)
              /\ (~Begins(c) /\ nx.notified # cr.notified) =>
                    /\ Awaiting(nx)
                    /\ currentModelIndex' = currentModelIndex
                    /\ nx.attempts = cr.attempts
              /\ (Awaiting(cr) /\ nx.pc = "done"
                               /\ nx.value.origin = "callback") =>
                    /\ currentModelIndex' = currentModelIndex
                    /\ lastModelReset' = lastModelReset
                    /\ nx.attempts = cr.attempts
                    /\ nx.outcome \in {"threw", "errored"}
      ]_vars

\* C31 witness: a doStream call whose first backend rejected the dispatch
\* (callback returned, index advanced to 1) and whose second backend's stream
\* then failed; the callback invoked for that failure threw, and the call
\* ended with the callback's error with the index still 1.
C31_Witness ==
    \E c \in SoloCallers :
      LET cr == call[c] IN
      /\ cr.op = "doStream" /\ cr.pc = "done"
      /\ cr.attempts = <<0, 1>>
      /\ Len(cr.notified) = 2
      /\ cr.lastError.origin \in {"in-band", "out-of-band"}
      /\ cr.value.origin = "callback"
      /\ cr.outcome = "errored"
      /\ N = 3 /\ currentModelIndex = 1

\* The caller holds a stream of the call and the relay has not ended it.
StreamOpen(cr) ==
    /\ cr.op = "doStream"
    /\ cr.pc # "done"
    /\ cr.depth > 0 \/ cr.pc \in {"read", "catchOnError"}

\* The caller's stream has had no terminal event while the relay runs, and
\* at most one once it has stopped: the one its outcome names, with every
\* enqueued chunk before it.
AtMostOneTerminal(cr) ==
    /\ Len(cr.ended) <= 1
    /\ cr.pc # "done" => cr.ended = <<>>
    /\ cr.ended # <<>> =>
         /\ cr.outcome \in {"closed", "errored"}
         /\ cr.ended[1].event = IF cr.outcome = "closed" THEN "close"
                                ELSE "error"
         /\ cr.ended[1].after = Len(cr.out)

\* C32: every stream handed to a caller gets exactly one terminal event: never
\* a second one, never a chunk after it, and, provided every dispatch, read
\* and callback the relay awaits settles, it does get one.
C32_OneTerminalEvent ==
    \A c \in SoloCallers :
       /\ [](call[c].op = "doStream" => AtMostOneTerminal(call[c]))
       /\ StreamOpen(call[c]) ~> (Len(call[c].ended) = 1)

\* The part of C32 that is about the events a stream does get.
TerminalEventsInOrder ==
    \A c \in SoloCallers :
       call[c].op = "doStream" => AtMostOneTerminal(call[c])

\* One caller that may cancel its stream; each call records its dispatches
\* and its onError calls.
SpecCancelled == InitConc /\ [][NextCancel]_vars

\* C33: after the caller has cancelled its stream, a step in which the
\* serving backend does not fail (it yields a chunk or ends its stream, or a
\* callback awaited for the relay's own failed write returns) invokes no
\* onError, does not advance currentModelIndex and dispatches to no backend.
C33_CancelIsNotFailure ==
    [][ \A c \in SoloCallers :
          LET cr == call[c]
              nx == call'[c]
          IN  ( /\ cr.op = "doStream" /\ cr.cancelled
                /\ \/ /\ cr.pc = "read"
                      /\ ~BackendFailure(nx.lastError) \/ nx.lastError = cr.lastError
                   \/ /\ cr.pc = "catchOnError"
                      /\ ~BackendFailure(cr.lastError) ) =>
                 /\ nx.notified = cr.notified
                 /\ currentModelIndex' = currentModelIndex
                 /\ nx.attempts = cr.attempts
      ]_vars

====
